---- MODULE Spec2Model ----
(***************************************************************************)
(* Model of the plump game core: the reducer-style step function of the    *)
(* bidding / trick / trump / scoring engine, the card model with its       *)
(* seeded shuffle, and the caller that holds one GameState value and       *)
(* replaces it by step(state, cmd).                                        *)
(*                                                                         *)
(* Encodings.  A card `${rank}${suit}` is the pair <<rank, suit>>; the     *)
(* suits are written S, H, D, C.  A seed string is the sequence of its     *)
(* character codes.  A value that may be null or undefined is kept in a    *)
(* sequence of length 0 (absent) or 1 (present); the turn, a string or     *)
(* null, uses the string Null, which is not a player id.                   *)
(***************************************************************************)
EXTENDS Integers, Sequences, FiniteSets, TLC

\* ---- cards ----------------------------------------------------------------

RANKS == <<"A", "K", "Q", "J", "10", "9", "8", "7", "6", "5", "4", "3", "2">>

SUITS == <<"S", "H", "D", "C">>

fullDeck ==
  [k \in 1..(Len(SUITS) * Len(RANKS)) |->
     <<RANKS[((k - 1) % Len(RANKS)) + 1], SUITS[((k - 1) \div Len(RANKS)) + 1]>>]

suitOf(card) == card[2]

\* RANKS.indexOf(rank), 0-based, -1 when not found
rankIndex(card) ==
  IF \E i \in 1..Len(RANKS) : RANKS[i] = card[1]
  THEN (CHOOSE i \in 1..Len(RANKS) : RANKS[i] = card[1]) - 1
  ELSE -1

\* ---- 32-bit words as <<high 16 bits, low 16 bits>> -------------------------

W16 == 65536

RECURSIVE xorBits(_, _, _)
xorBits(a, b, n) ==
  IF n = 0 THEN 0
  ELSE ((a + b) % 2) + 2 * xorBits(a \div 2, b \div 2, n - 1)

\* (w * (mh * 2^16 + ml) + (ch * 2^16 + cl)) mod 2^32
mulAdd32(w, mh, ml, ch, cl) ==
  LET p0 == w[2] * ml + cl
      lo == p0 % W16
      hi == ((p0 \div W16) + ((w[1] * ml) % W16) + ((w[2] * mh) % W16) + ch) % W16
  IN  <<hi, lo>>

mod32(w, m) == (((w[1] % m) * (W16 % m)) + (w[2] % m)) % m

RECURSIVE hashFrom(_, _, _)
hashFrom(h, s, i) ==
  IF i > Len(s) THEN h
  ELSE LET x == <<h[1], xorBits(h[2], s[i], 16)>>
       IN  hashFrom(mulAdd32(x, 256, 403, 0, 0), s, i + 1)

\* FNV-1a: basis 2166136261 = 0x811C9DC5, prime 16777619 = 0x01000193
hash(s) == hashFrom(<<33052, 40389>>, s, 1)

\* x = (1664525 * x + 1013904223) >>> 0; 0x0019660D and 0x3C6EF35F
lcg(x) == mulAdd32(x, 25, 26125, 15470, 62303)

\* an iteration that copies a[j] to a[i] and forgets to store a[i] at j
shuffleBodyOverwrite(st) ==
  LET nx == lcg(st.x)
      j  == mod32(nx, st.i + 1)
  IN  [a |-> [st.a EXCEPT ![st.i + 1] = st.a[j + 1]],
       x |-> nx,
       i |-> st.i - 1]

\* one iteration of the Fisher-Yates loop on the loop variables a, x (the
\* generator state) and i:  j = next() % (i + 1); swap a[i], a[j]; i--
shuffleBody(st) ==
  LET nx == lcg(st.x)
      j  == mod32(nx, st.i + 1)
  IN  [a |-> [st.a EXCEPT ![st.i + 1] = st.a[j + 1], ![j + 1] = st.a[st.i + 1]],
       x |-> nx,
       i |-> st.i - 1]

\* at most n iterations of  for (...; i > 0; i--)  from the loop variables st
RECURSIVE shuffleLoop(_, _)
shuffleLoop(st, n) ==
  IF st.i <= 0 \/ n <= 0 THEN st
  ELSE IF n = 1 THEN shuffleBody(st)
  ELSE shuffleLoop(shuffleLoop(st, n \div 2), n - (n \div 2))

shuffle(deck, seed) ==
  shuffleLoop([a |-> deck, x |-> hash(seed), i |-> Len(deck) - 1], Len(deck)).a

\* JS Array.prototype.slice(from, to) for 0 <= from <= to, clipped at the end
slice(a, from, to) ==
  LET hi == IF to < Len(a) THEN to ELSE Len(a)
  IN  IF from >= hi THEN << >> ELSE [k \in 1..(hi - from) |-> a[from + k]]

\* ---- values ---------------------------------------------------------------

Null == "null"

Undefined == "undefined"

None == << >>

Some(x) == <<x>>

EmptyMap == [k \in {} |-> 0]

\* { ...m, [k]: v }
Put(m, k, v) == [x \in (DOMAIN m) \cup {k} |-> IF x = k THEN v ELSE m[x]]

\* m[k] ?? d
Get(m, k, d) == IF k \in DOMAIN m THEN m[k] ELSE d

\* orUndef ?? d, for a field kept as None / Some(v)
OrElse(o, d) == IF o = None THEN d ELSE o[1]

\* !turn : null and the empty string are falsy
Falsy(t) == t = Null \/ t = ""

\* ---- engine helpers -------------------------------------------------------

MAX_PLAYERS == 7

currentHandSize(s) ==
  IF s.roundIndex + 1 \in 1..Len(s.handSizes) THEN s.handSizes[s.roundIndex + 1] ELSE 0

\* players.findIndex(p => p.id === playerId), 0-based, -1 when absent
findIndex(players, playerId) ==
  IF \E i \in 1..Len(players) : players[i].id = playerId
  THEN (CHOOSE i \in 1..Len(players) :
          /\ players[i].id = playerId
          /\ \A j \in 1..(i - 1) : players[j].id # playerId) - 1
  ELSE -1

\* nextAfter that does not wrap around: null after the last player
nextAfterNoWrap(playerId, players) ==
  LET f   == findIndex(players, playerId)
      idx == IF f > 0 THEN f ELSE 0
  IN  IF idx + 2 <= Len(players) THEN players[idx + 2].id ELSE Null

nextAfter(playerId, players) ==
  LET f   == findIndex(players, playerId)
      idx == IF f > 0 THEN f ELSE 0
  IN  players[((idx + 1) % Len(players)) + 1].id

\* rotateTurn that walks the seats without wrapping around: past the last
\* player the turn is players[length]?.id, which is undefined
rotateTurnOffTable(s) ==
  IF Falsy(s.turn) \/ Len(s.players) = 0 THEN s
  ELSE LET idx == findIndex(s.players, s.turn)
       IN  [s EXCEPT !.turn = IF idx + 2 <= Len(s.players)
                               THEN s.players[idx + 2].id ELSE Undefined,
                     !.timer = Some(s.turnSeconds)]

rotateTurn(s) ==
  IF Falsy(s.turn) \/ Len(s.players) = 0 THEN s
  ELSE [s EXCEPT !.turn = nextAfter(s.turn, s.players), !.timer = Some(s.turnSeconds)]

RECURSIVE sumValues(_, _)
sumValues(m, keys) ==
  IF keys = {} THEN 0
  ELSE LET k == CHOOSE x \in keys : TRUE
       IN  m[k] + sumValues(m, keys \ {k})

sumBids(bids) == sumValues(bids, DOMAIN bids)

RECURSIVE dealHands(_, _, _, _, _)
dealHands(players, deck, n, i, hands) ==
  IF i > Len(players) THEN hands
  ELSE dealHands(players, deck, n, i + 1,
                 Put(hands, players[i].id, slice(deck, (i - 1) * n, (i - 1) * n + n)))

\* a deal that shuffles with a seed of its own for every round
dealReseeded(s) ==
  LET n    == currentHandSize(s)
      deck == shuffle(fullDeck, Append(s.rngSeed, 48 + s.roundIndex))
  IN  [s EXCEPT !.deck = Some(deck),
                !.hands = Some(dealHands(s.players, deck, n, 1, EmptyMap)),
                !.trick = None,
                !.tableWins = Some([id \in {s.players[i].id : i \in 1..Len(s.players)} |-> 0])]

deal(s) ==
  LET n    == currentHandSize(s)
      deck == shuffle(fullDeck, s.rngSeed)
  IN  [s EXCEPT !.deck = Some(deck),
                !.hands = Some(dealHands(s.players, deck, n, 1, EmptyMap)),
                !.trick = None,
                !.tableWins = Some([id \in {s.players[i].id : i \in 1..Len(s.players)} |-> 0])]

\* startHand that skips bidding, as the engine did before bidding existed
startHandInTrick(s) ==
  LET dealt == deal(s)
  IN  [dealt EXCEPT !.phase = "Trick",
                    !.timer = Some(dealt.turnSeconds),
                    !.turn = dealt.players[dealt.leadIndex + 1].id,
                    !.bids = Some(EmptyMap),
                    !.trump = "NT"]

startHand(s) ==
  LET dealt  == deal(s)
      leader == IF dealt.leadIndex + 1 \in 1..Len(dealt.players)
                THEN dealt.players[dealt.leadIndex + 1].id
                ELSE IF Len(dealt.players) > 0 THEN dealt.players[1].id ELSE Null
  IN  [dealt EXCEPT !.phase = "Bidding",
                    !.timer = None,
                    !.turn = leader,
                    !.bids = Some(EmptyMap),
                    !.trump = "NT"]

includes(seq, x) == \E i \in 1..Len(seq) : seq[i] = x

handOf(s, playerId) == Get(OrElse(s.hands, EmptyMap), playerId, << >>)

trickPlays(s) == IF s.trick = None THEN << >> ELSE s.trick[1].plays

\* legalToPlay without the follow-suit rule
legalToPlayAnySuit(s, playerId, card) == includes(handOf(s, playerId), card)

legalToPlay(s, playerId, card) ==
  LET hand == handOf(s, playerId)
  IN  IF ~includes(hand, card) THEN FALSE
      ELSE IF s.trick = None \/ Len(s.trick[1].plays) = 0 THEN TRUE
      ELSE LET leadSuit == suitOf(s.trick[1].plays[1].card)
               hasLead  == \E i \in 1..Len(hand) : suitOf(hand[i]) = leadSuit
           IN  ~hasLead \/ suitOf(card) = leadSuit

\* best = list[0]; for i = 1..: if rankIndex(list[i].card) < rankIndex(best.card) best = list[i]
RECURSIVE bestPlay(_, _, _)
bestPlay(list, i, best) ==
  IF i > Len(list) THEN best
  ELSE bestPlay(list, i + 1,
                IF rankIndex(list[i].card) < rankIndex(best.card) THEN list[i] ELSE best)

\* pickTrickWinner that lets the lead suit win although a trump was played
pickTrickWinnerNoTrump(plays, trump) ==
  LET leadPlays == SelectSeq(plays, LAMBDA p : suitOf(p.card) = suitOf(plays[1].card))
  IN  bestPlay(leadPlays, 2, leadPlays[1]).playerId

pickTrickWinner(plays, trump) ==
  LET trumpPlays == SelectSeq(plays, LAMBDA p : suitOf(p.card) = trump)
      leadSuit   == suitOf(plays[1].card)
      leadPlays  == SelectSeq(plays, LAMBDA p : suitOf(p.card) = leadSuit)
  IN  IF trump # "NT" /\ Len(trumpPlays) > 0
      THEN bestPlay(trumpPlays, 2, trumpPlays[1]).playerId
      ELSE bestPlay(leadPlays, 2, leadPlays[1]).playerId

\* a play that leaves the card in the hand
removeCardKeepsIt(hand, card) == hand

\* hand.splice(hand.indexOf(card), 1): drop the first occurrence of card
removeCard(hand, card) ==
  LET k == CHOOSE i \in 1..Len(hand) : hand[i] = card /\ \A j \in 1..(i - 1) : hand[j] # card
  IN  [i \in 1..(Len(hand) - 1) |-> IF i < k THEN hand[i] ELSE hand[i + 1]]

\* trickComplete that is one play late
trickCompleteLate(plays, players) == Len(plays) > Len(players)

\* plays.length === state.players.length
trickComplete(plays, players) == Len(plays) = Len(players)

\* a hand that is taken to be over after every trick
anyLeftNever(hands) == FALSE

\* Object.values(hands).some(h => h.length > 0)
anyLeft(hands) == \E id \in DOMAIN hands : Len(hands[id]) > 0

playCard(s, playerId, card) ==
  IF s.phase # "Trick" \/ s.hands = None THEN s
  ELSE IF s.turn # playerId THEN s
  ELSE IF ~legalToPlay(s, playerId, card) THEN s
  ELSE
    LET hand  == removeCard(s.hands[1][playerId], card)
        hands == Put(s.hands[1], playerId, hand)
        trick == IF s.trick = None THEN [leader |-> playerId, plays |-> << >>] ELSE s.trick[1]
        plays == Append(trick.plays, [playerId |-> playerId, card |-> card])
    IN  IF trickComplete(plays, s.players)
        THEN LET winner    == pickTrickWinner(plays, s.trump)
                 old       == OrElse(s.tableWins, EmptyMap)
                 tableWins == Put(old, winner, Get(old, winner, 0) + 1)
             IN  IF ~anyLeft(hands)
                 THEN [s EXCEPT !.hands = Some(hands),
                                !.trick = None,
                                !.tableWins = Some(tableWins),
                                !.turn = winner,
                                !.phase = "Scoring",
                                !.timer = None]
                 ELSE [s EXCEPT !.hands = Some(hands),
                                !.trick = None,
                                !.tableWins = Some(tableWins),
                                !.turn = winner,
                                !.timer = Some(s.turnSeconds)]
        ELSE [s EXCEPT !.hands = Some(hands),
                       !.trick = Some([leader |-> trick.leader, plays |-> plays]),
                       !.turn = nextAfter(playerId, s.players),
                       !.timer = Some(s.turnSeconds)]

\* worst = list[0]; for i = 1..: if rankIndex(list[i]) > rankIndex(worst) worst = list[i]
RECURSIVE worstCard(_, _, _), bestCard(_, _, _)
\* the loop with the comparison turned round: it keeps the highest card
bestCard(list, i, worst) ==
  IF i > Len(list) THEN worst
  ELSE bestCard(list, i + 1, IF rankIndex(list[i]) < rankIndex(worst) THEN list[i] ELSE worst)

worstCard(list, i, worst) ==
  IF i > Len(list) THEN worst
  ELSE worstCard(list, i + 1, IF rankIndex(list[i]) > rankIndex(worst) THEN list[i] ELSE worst)

\* the chosen card as Some(card), null as None
chooseAutoCard(s, playerId) ==
  LET hand     == handOf(s, playerId)
      plays    == trickPlays(s)
      hasLead  == Len(plays) > 0
      legal    == SelectSeq(hand, LAMBDA c : legalToPlay(s, playerId, c))
      pool     == IF hasLead
                  THEN SelectSeq(legal, LAMBDA c : suitOf(c) = suitOf(plays[1].card))
                  ELSE legal
      list     == IF Len(pool) > 0 THEN pool ELSE legal
  IN  IF Len(hand) = 0 THEN None
      ELSE IF Len(legal) = 0 THEN None
      ELSE Some(worstCard(list, 2, list[1]))

\* autoPlay that leaves the turn with a player who cannot play
autoPlayNoRotate(s) ==
  IF Falsy(s.turn) THEN s
  ELSE LET card == chooseAutoCard(s, s.turn)
       IN  IF card = None THEN s ELSE playCard(s, s.turn, card[1])

autoPlay(s) ==
  IF Falsy(s.turn) THEN s
  ELSE LET card == chooseAutoCard(s, s.turn)
       IN  IF card = None THEN rotateTurn(s) ELSE playCard(s, s.turn, card[1])

\* bidding that ends with the first bid
biddingDoneEarly(bids, players) == \E i \in 1..Len(players) : players[i].id \in DOMAIN bids

\* state.players.every(p => typeof bids[p.id] === "number")
biddingDone(bids, players) == \A i \in 1..Len(players) : players[i].id \in DOMAIN bids

\* placeBid without the forbidden-sum rule
placeBidAnySum(s, playerId, bid) ==
  IF s.phase # "Bidding" THEN s
  ELSE IF s.turn # playerId THEN s
  ELSE
    LET bids        == Put(s.bids[1], playerId, bid)
    IN  IF bid < 0 \/ bid > currentHandSize(s) THEN s
        ELSE IF biddingDone(bids, s.players)
             THEN [s EXCEPT !.bids = Some(bids),
                            !.phase = "Trick",
                            !.trick = None,
                            !.timer = Some(s.turnSeconds),
                            !.turn = s.players[s.leadIndex + 1].id]
             ELSE [s EXCEPT !.bids = Some(bids), !.turn = nextAfter(playerId, s.players)]

placeBid(s, playerId, bid) ==
  IF s.phase # "Bidding" THEN s
  ELSE IF s.turn # playerId THEN s
  ELSE
    LET max == currentHandSize(s)
        leaderId == IF s.leadIndex + 1 \in 1..Len(s.players)
                    THEN s.players[s.leadIndex + 1].id ELSE Null
        isLastBidder == leaderId # Null /\ nextAfter(playerId, s.players) = leaderId
        currentSum   == sumBids(s.bids[1])
        proposedSum  == currentSum + bid
        bids         == Put(s.bids[1], playerId, bid)
    IN  IF bid < 0 \/ bid > max THEN s
        ELSE IF isLastBidder /\ proposedSum = max THEN s
        ELSE IF biddingDone(bids, s.players)
             THEN [s EXCEPT !.bids = Some(bids),
                            !.phase = "Trick",
                            !.trick = None,
                            !.timer = Some(s.turnSeconds),
                            !.turn = IF leaderId # Null THEN leaderId ELSE s.turn]
             ELSE [s EXCEPT !.bids = Some(bids), !.turn = nextAfter(playerId, s.players)]

\* setTrump without the phase guard
setTrumpAnyPhase(s, trump) == [s EXCEPT !.trump = trump]

setTrump(s, trump) ==
  IF s.phase # "Bidding" THEN s ELSE [s EXCEPT !.trump = trump]

RECURSIVE scoreFrom(_, _, _), scoreFromBonusOnly(_, _, _)
\* scoreFrom that awards the bonus without the bid
scoreFromBonusOnly(s, i, scores) ==
  IF i > Len(s.players) THEN scores
  ELSE LET pid    == s.players[i].id
           tricks == Get(OrElse(s.tableWins, EmptyMap), pid, 0)
           bid    == Get(OrElse(s.bids, EmptyMap), pid, 0)
           cfg    == s.scoring[1]
       IN  scoreFromBonusOnly(s, i + 1,
             IF tricks = bid
             THEN Put(scores, pid, Get(scores, pid, 0) + cfg.exactBonus)
             ELSE IF cfg.missMode = "wins"
                  THEN Put(scores, pid, Get(scores, pid, 0) + tricks)
                  ELSE scores)

scoreFrom(s, i, scores) ==
  IF i > Len(s.players) THEN scores
  ELSE LET pid    == s.players[i].id
           tricks == Get(OrElse(s.tableWins, EmptyMap), pid, 0)
           bid    == Get(OrElse(s.bids, EmptyMap), pid, 0)
           cfg    == s.scoring[1]
       IN  scoreFrom(s, i + 1,
             IF tricks = bid
             THEN Put(scores, pid, Get(scores, pid, 0) + cfg.exactBonus + bid)
             ELSE IF cfg.missMode = "wins"
                  THEN Put(scores, pid, Get(scores, pid, 0) + tricks)
                  ELSE scores)

\* scoreHand that awards nothing
scoreHandKeepsScores(s) == s.scores

scoreHand(s) == scoreFrom(s, 1, s.scores)

\* ---- the reducer ------------------------------------------------------------

\* roundOver that is one hand late
roundOverLate(s, nextRound) == nextRound > Len(s.handSizes)

\* nextRound >= state.handSizes.length
roundOver(s, nextRound) == nextRound >= Len(s.handSizes)

\* a lead that moves on without wrapping around
nextLeadNoWrap(s) == s.leadIndex + 1

\* (state.leadIndex + 1) % state.players.length
nextLead(s) == (s.leadIndex + 1) % Len(s.players)

\* a timer that still runs at zero
timerRunningAtZero(t) == t >= 0

\* t > 0
timerRunning(t) == t > 0

\* a lobby that takes one player more than MAX_PLAYERS
lobbyFullLate(s) == Len(s.players) > MAX_PLAYERS

\* state.players.length >= MAX_PLAYERS
lobbyFull(s) == Len(s.players) >= MAX_PLAYERS

step(s, cmd) ==
  CASE cmd.type = "ADD_PLAYER" ->
         IF lobbyFull(s) THEN s
         ELSE IF s.phase # "Lobby" THEN s
         ELSE IF \E i \in 1..Len(s.players) : s.players[i].id = cmd.playerId THEN s
         ELSE [s EXCEPT !.players =
                 Append(s.players,
                        [id |-> cmd.playerId,
                         kind |-> IF cmd.kind = Undefined THEN "human" ELSE cmd.kind])]
    [] cmd.type = "START_GAME" ->
         IF s.phase # "Lobby" \/ Len(s.players) < 2 THEN s
         ELSE LET scoring ==
                    [exactBonus |-> Get(cmd.scoring, "exactBonus", 10),
                     missMode   |-> Get(cmd.scoring, "missMode", "zero")]
                  seeded ==
                    [s EXCEPT !.handSizes = cmd.handSizes,
                              !.turnSeconds = cmd.turnSeconds,
                              !.roundIndex = 0,
                              !.leadIndex = 0,
                              !.scores = [id \in {s.players[i].id : i \in 1..Len(s.players)} |-> 0],
                              !.bids = Some(EmptyMap),
                              !.trump = "NT",
                              !.scoring = Some(scoring)]
              IN  startHand(seeded)
    [] cmd.type = "PLACE_BID" -> placeBid(s, cmd.playerId, cmd.bid)
    [] cmd.type = "SET_TRUMP" -> setTrump(s, cmd.trump)
    [] cmd.type = "PLAY_CARD" -> playCard(s, cmd.playerId, cmd.card)
    [] cmd.type = "TICK" ->
         IF s.phase # "Trick" THEN s
         ELSE LET t == OrElse(s.timer, 0) - 1
              IN  IF timerRunning(t) THEN [s EXCEPT !.timer = Some(t)] ELSE autoPlay(s)
    [] cmd.type = "NEXT_TURN" -> rotateTurn(s)
    [] cmd.type = "NEXT_HAND" ->
         IF s.phase # "Scoring" THEN s
         ELSE LET scores    == scoreHand(s)
                  nextRound == s.roundIndex + 1
              IN  IF roundOver(s, nextRound)
                  THEN [s EXCEPT !.scores = scores,
                                 !.phase = "RoundEnd",
                                 !.timer = None,
                                 !.hands = None,
                                 !.trick = None,
                                 !.tableWins = None,
                                 !.bids = Some(EmptyMap)]
                  ELSE startHand([s EXCEPT !.scores = scores,
                                           !.roundIndex = nextRound,
                                           !.leadIndex = nextLead(s),
                                           !.bids = Some(EmptyMap),
                                           !.trump = "NT"])
    [] OTHER -> s

\* scoring, bids, trump and the per-hand fields are not set by initialState
initialState(seed) ==
  [version     |-> 1,
   phase       |-> "Lobby",
   players     |-> << >>,
   turn        |-> Null,
   rngSeed     |-> seed,
   turnSeconds |-> 0,
   timer       |-> None,
   handSizes   |-> << >>,
   roundIndex  |-> 0,
   leadIndex   |-> 0,
   scores      |-> EmptyMap,
   scoring     |-> None,
   bids        |-> None,
   trump       |-> Undefined,
   deck        |-> None,
   hands       |-> None,
   trick       |-> None,
   tableWins   |-> None]

\* applyCommand whose result also says whether the command was rejected
applyCommandWithReason(s, cmd) == [state |-> step(s, cmd), rejected |-> step(s, cmd) = s]

\* the result object carries the state and nothing else
applyCommand(s, cmd) == [state |-> step(s, cmd)]

\* ---- bounds and inputs ------------------------------------------------------

\* the most cards the deals of an explored match hand out, all hands together
MaxDeal == 4

\* PLACE_BID amounts are drawn from -1..MaxBid
MaxBid == 3

\* "dev-seed"
Seeds == {<<100, 101, 118, 45, 115, 101, 101, 100>>}

PlayerIds == {"a", "b", "c"}

Trumps == {"NT"} \cup {SUITS[i] : i \in 1..Len(SUITS)}

AddPlayerCmds ==
  {[type |-> "ADD_PLAYER", playerId |-> "a", kind |-> Undefined],
   [type |-> "ADD_PLAYER", playerId |-> "b", kind |-> "bot"],
   [type |-> "ADD_PLAYER", playerId |-> "c", kind |-> "human"]}

StartGameCmds ==
  {[type |-> "START_GAME", handSizes |-> <<2>>, turnSeconds |-> 2, scoring |-> EmptyMap],
   [type |-> "START_GAME", handSizes |-> <<1, 1>>, turnSeconds |-> 1,
    scoring |-> [exactBonus |-> 5, missMode |-> "wins"]],
   [type |-> "START_GAME", handSizes |-> <<1>>, turnSeconds |-> 2,
    scoring |-> [missMode |-> "wins"]],
   [type |-> "START_GAME", handSizes |-> <<0>>, turnSeconds |-> 1, scoring |-> EmptyMap],
   [type |-> "START_GAME", handSizes |-> << >>, turnSeconds |-> 0, scoring |-> EmptyMap]}

\* the cards the deals within MaxDeal can hand out, and one card that is never dealt
CardInputs == UNION {{shuffle(fullDeck, seed)[k] : k \in 1..(MaxDeal + 1)} : seed \in Seeds}

PlaceBidCmds ==
  {[type |-> "PLACE_BID", playerId |-> p, bid |-> b] : p \in PlayerIds, b \in -1..MaxBid}

SetTrumpCmds == {[type |-> "SET_TRUMP", trump |-> t] : t \in Trumps}

PlayCardCmds ==
  {[type |-> "PLAY_CARD", playerId |-> p, card |-> c] : p \in PlayerIds, c \in CardInputs}

TickCmd == [type |-> "TICK"]

NextTurnCmd == [type |-> "NEXT_TURN"]

NextHandCmd == [type |-> "NEXT_HAND"]

RECURSIVE sumSeq(_)
sumSeq(q) == IF q = << >> THEN 0 ELSE q[1] + sumSeq(Tail(q))

\* ---- the caller: one state value, replaced by step(state, cmd) -------------

\* state: the GameState the caller holds
\* nextHands: history, the NEXT_HAND commands accepted since START_GAME
\* probe: input and result of a stand-alone call of pickTrickWinner or shuffle
\* app: the timers of the mobile App, each with the state its callback captured
\* engine: a GameEngine object of the event-sourced variant
VARIABLES state, nextHands, probe, app, engine

vars == <<state, nextHands, probe, app, engine>>

NoProbe == [plays |-> << >>, trump |-> "NT", winner |-> Null]

\* no App is mounted, no GameEngine object exists
NoApp == None

NoEngine == None

Init ==
  /\ state \in {initialState(seed) : seed \in Seeds}
  /\ nextHands = 0
  /\ probe = NoProbe
  /\ app = NoApp
  /\ engine = NoEngine

AddPlayer ==
  \E cmd \in AddPlayerCmds :
    /\ state' = applyCommand(state, cmd).state
    /\ UNCHANGED <<nextHands, probe, app, engine>>

StartGame ==
  \E cmd \in StartGameCmds :
    /\ sumSeq(cmd.handSizes) * Len(state.players) <= MaxDeal
    /\ state' = applyCommand(state, cmd).state
    /\ nextHands' = IF state'.phase # state.phase THEN 0 ELSE nextHands
    /\ UNCHANGED <<probe, app, engine>>

PlaceBid ==
  \E cmd \in PlaceBidCmds :
    /\ state' = applyCommand(state, cmd).state
    /\ UNCHANGED <<nextHands, probe, app, engine>>

SetTrump ==
  \E cmd \in SetTrumpCmds :
    /\ state' = applyCommand(state, cmd).state
    /\ UNCHANGED <<nextHands, probe, app, engine>>

PlayCard ==
  \E cmd \in PlayCardCmds :
    /\ state' = applyCommand(state, cmd).state
    /\ UNCHANGED <<nextHands, probe, app, engine>>

Tick ==
  /\ state' = applyCommand(state, TickCmd).state
  /\ UNCHANGED <<nextHands, probe, app, engine>>

NextTurn ==
  /\ state' = applyCommand(state, NextTurnCmd).state
  /\ UNCHANGED <<nextHands, probe, app, engine>>

NextHand ==
  /\ state' = applyCommand(state, NextHandCmd).state
  /\ nextHands' = IF state'.phase # state.phase THEN nextHands + 1 ELSE nextHands
  /\ UNCHANGED <<probe, app, engine>>

Next ==
  \/ AddPlayer
  \/ StartGame
  \/ PlaceBid
  \/ SetTrump
  \/ PlayCard
  \/ Tick
  \/ NextTurn
  \/ NextHand

Spec == Init /\ [][Next]_vars

\* ---- a stand-alone call of pickTrickWinner ---------------------------------

\* the cards of three ranks in three suits
ProbeCards == {<<r, u>> : r \in {"A", "K", "2"}, u \in {"S", "H", "D"}}

ProbePlayers == <<"a", "b", "c">>

\* tricks of two or three distinct cards, the i-th played by ProbePlayers[i]
ProbePlays ==
  {[i \in 1..2 |-> [playerId |-> ProbePlayers[i], card |-> q[i]]] :
     q \in {x \in ProbeCards \X ProbeCards : x[1] # x[2]}}
  \cup
  {[i \in 1..3 |-> [playerId |-> ProbePlayers[i], card |-> q[i]]] :
     q \in {x \in ProbeCards \X ProbeCards \X ProbeCards :
              x[1] # x[2] /\ x[1] # x[3] /\ x[2] # x[3]}}

InitWinner ==
  /\ state \in {initialState(seed) : seed \in Seeds}
  /\ nextHands = 0
  /\ probe \in {[plays |-> ps, trump |-> t, winner |-> Null] : ps \in ProbePlays, t \in Trumps}
  /\ app = NoApp
  /\ engine = NoEngine

Resolve ==
  /\ probe.winner = Null
  /\ probe' = [probe EXCEPT !.winner = pickTrickWinner(probe.plays, probe.trump)]
  /\ UNCHANGED <<state, nextHands, app, engine>>

NextWinner == Resolve

WinnerSpec == InitWinner /\ [][NextWinner]_vars

\* ---- a lobby with more callers than seats --------------------------------

\* one id more than MAX_PLAYERS
WidePlayerIds == PlayerIds \cup {"d", "e", "f", "g", "h"}

AddPlayerWideCmds ==
  AddPlayerCmds \cup
    {[type |-> "ADD_PLAYER", playerId |-> p, kind |-> Undefined] : p \in WidePlayerIds \ PlayerIds}

AddPlayerWide ==
  \E cmd \in AddPlayerWideCmds :
    /\ state' = applyCommand(state, cmd).state
    /\ UNCHANGED <<nextHands, probe, app, engine>>

\* matches are explored for the players of PlayerIds only
StartGameSeated ==
  /\ \A i \in 1..Len(state.players) : state.players[i].id \in PlayerIds
  /\ StartGame

NextLobby ==
  \/ AddPlayerWide
  \/ StartGameSeated
  \/ PlaceBid
  \/ SetTrump
  \/ PlayCard
  \/ Tick
  \/ NextTurn
  \/ NextHand

LobbySpec == Init /\ [][NextLobby]_vars

\* ---- matches whose hands are as large as the deck allows, and larger ------

\* 26 cards each use up the deck with two players; 27 each need 54 cards
StartGameBigCmds ==
  {[type |-> "START_GAME", handSizes |-> <<26>>, turnSeconds |-> 2, scoring |-> EmptyMap],
   [type |-> "START_GAME", handSizes |-> <<27>>, turnSeconds |-> 2, scoring |-> EmptyMap]}

StartGameBig ==
  \E cmd \in StartGameBigCmds :
    /\ state' = applyCommand(state, cmd).state
    /\ nextHands' = IF state'.phase # state.phase THEN 0 ELSE nextHands
    /\ UNCHANGED <<probe, app, engine>>

NextDeal ==
  \/ AddPlayer
  \/ StartGameBig
  \/ SetTrump
  \/ NextTurn

DealSpec == Init /\ [][NextDeal]_vars

\* ---- a match of more hands than players ---------------------------------

\* the most cards the deals of a match of RotationSpec hand out
MaxLongDeal == 6

StartGameLongCmds ==
  {[type |-> "START_GAME", handSizes |-> <<1, 1, 1>>, turnSeconds |-> 1, scoring |-> EmptyMap]}

StartGameLong ==
  \E cmd \in StartGameLongCmds :
    /\ sumSeq(cmd.handSizes) * Len(state.players) <= MaxLongDeal
    /\ state' = applyCommand(state, cmd).state
    /\ nextHands' = IF state'.phase # state.phase THEN 0 ELSE nextHands
    /\ UNCHANGED <<probe, app, engine>>

NextRotation ==
  \/ AddPlayer
  \/ StartGameLong
  \/ PlaceBid
  \/ SetTrump
  \/ PlayCard
  \/ Tick
  \/ NextTurn
  \/ NextHand

RotationSpec == Init /\ [][NextRotation]_vars

\* ---- stand-alone calls of shuffle ------------------------------------------

\* "dev-seed", "seed-123", the empty string and the strings of one or two
\* of the characters 1, a, z
ShuffleSeeds ==
  Seeds \cup {<<115, 101, 101, 100, 45, 49, 50, 51>>, << >>}
    \cup {<<c>> : c \in {49, 97, 122}}
    \cup {<<c, d>> : c, d \in {49, 97, 122}}

\* the full deck, leading parts of it (the empty deck and a single card among
\* them) and a deck that holds one card twice
ShuffleDecks ==
  {SubSeq(fullDeck, 1, k) : k \in {0, 1, 2, 3, 5, 13, 52}}
    \cup {<<fullDeck[1], fullDeck[2], fullDeck[1], fullDeck[3]>>}

\* the calls made on one input
MaxCalls == 2

InitShuffle ==
  /\ state \in {initialState(seed) : seed \in Seeds}
  /\ nextHands = 0
  /\ probe \in {[deck |-> d, seed |-> sd, out |-> None, calls |-> 0] :
                  d \in ShuffleDecks, sd \in ShuffleSeeds}
  /\ app = NoApp
  /\ engine = NoEngine

\* out = shuffle(deck, seed): the call works on a copy (deck.slice()), the
\* caller's deck stays as it is
ShuffleCall ==
  /\ probe.calls < MaxCalls
  /\ probe' = [probe EXCEPT !.out = Some(shuffle(probe.deck, probe.seed)),
                            !.calls = @ + 1]
  /\ UNCHANGED <<state, nextHands, app, engine>>

NextShuffle == ShuffleCall

ShuffleSpec == InitShuffle /\ [][NextShuffle]_vars

\* ---- the mobile App: one React state, an auto-tick interval, a bot timer ----

\* "seed-123"
AppSeed == <<115, 101, 101, 100, 45, 49, 50, 51>>

capacity == 7

\* the most cards one deal of an explored match hands out
MaxAppDeal == 4

hasHuman(s) == \E i \in 1..Len(s.players) : s.players[i].kind = "human"

seats(s) == Len(s.players)

BotNames == <<"bot1", "bot2", "bot3", "bot4", "bot5", "bot6", "bot7">>

\* the first of bot1..bot7 that is not seated; with all seven seated the name
\* is drawn at random, which a lobby of at most seven players never reaches
nextBotId(s) ==
  LET free == {i \in 1..Len(BotNames) :
                 \A j \in 1..Len(s.players) : s.players[j].id # BotNames[i]}
  IN  BotNames[CHOOSE i \in free : \A k \in free : i <= k]

onStartGame ==
  [type |-> "START_GAME", handSizes |-> <<1, 2, 3, 4, 5, 4, 3, 2, 1>>, turnSeconds |-> 10,
   scoring |-> [exactBonus |-> 10, missMode |-> "zero"]]

\* leaderId && nextAfter(turn, players) === leaderId
isLastBidder(s, playerId) ==
  /\ s.leadIndex + 1 \in 1..Len(s.players)
  /\ ~Falsy(s.players[s.leadIndex + 1].id)
  /\ nextAfter(playerId, s.players) = s.players[s.leadIndex + 1].id

\* the amounts offered as bid chips: 0..handN without the forbidden one
biddingRange(s) ==
  LET handN     == currentHandSize(s)
      total     == sumBids(OrElse(s.bids, EmptyMap))
  IN  {n \in 0..handN : ~(~Falsy(s.turn) /\ isLastBidder(s, s.turn) /\ n = handN - total)}

\* the hand shown in the Play section: the hand of the player in turn
yourHand(s) == IF Falsy(s.turn) THEN << >> ELSE handOf(s, s.turn)

\* the commands the rendered controls send through run, phase by phase
\* ("Add +3 bots" calls addBot three times on one render's state: three
\* times the same command on the same state, the last result is kept)
buttons(s) ==
  IF s.phase = "Lobby"
  THEN {[type |-> "ADD_PLAYER", playerId |-> "you", kind |-> "human"] : x \in
          {y \in {1} : ~hasHuman(s) /\ seats(s) < capacity}}
       \cup {[type |-> "ADD_PLAYER", playerId |-> nextBotId(s), kind |-> "bot"] : x \in
          {y \in {1} : seats(s) < capacity}}
       \cup {onStartGame}
       \cup {[type |-> "REMOVE_PLAYER", playerId |-> s.players[i].id] : i \in 1..Len(s.players)}
  ELSE IF s.phase = "Bidding"
  THEN {[type |-> "PLACE_BID", playerId |-> s.turn, bid |-> n] : n \in
          {m \in biddingRange(s) : ~Falsy(s.turn)}}
       \cup {[type |-> "SET_TRUMP", trump |-> t] : t \in Trumps}
  ELSE IF s.phase = "Trick"
  THEN {[type |-> "PLAY_CARD", playerId |-> s.turn, card |-> yourHand(s)[i]] :
          i \in 1..Len(yourHand(s))}
       \cup {[type |-> "NEXT_TURN"]}
  ELSE IF s.phase = "Scoring"
  THEN {[type |-> "NEXT_HAND"]}
  ELSE {}

\* ten times the score of estimateBid: A 1, K 0.6, Q 0.3, a trump card 0.4 more
RECURSIVE bidScore(_, _, _)
bidScore(hand, trump, i) ==
  IF i > Len(hand) THEN 0
  ELSE (IF hand[i][1] = "A" THEN 10
        ELSE IF hand[i][1] = "K" THEN 6
        ELSE IF hand[i][1] = "Q" THEN 3 ELSE 0)
       + (IF trump # Undefined /\ trump # "NT" /\ suitOf(hand[i]) = trump THEN 4 ELSE 0)
       + bidScore(hand, trump, i + 1)

\* Math.max(0, Math.min(n, Math.round(score))): Math.round takes .5 upwards
estimateBid(hand, trump) ==
  LET rounded == (bidScore(hand, trump, 1) + 5) \div 10
      n       == Len(hand)
      capped  == IF rounded < n THEN rounded ELSE n
  IN  IF capped > 0 THEN capped ELSE 0

legalCards(hand, trick) ==
  IF trick = None \/ Len(trick[1].plays) = 0 THEN hand
  ELSE LET lead   == suitOf(trick[1].plays[1].card)
           follow == SelectSeq(hand, LAMBDA c : suitOf(c) = lead)
       IN  IF Len(follow) > 0 THEN follow ELSE hand

chooseBotCard(hand, trick) ==
  LET legals == legalCards(hand, trick)
  IN  worstCard(legals, 2, legals[1])

\* the command the bot timer's callback sends for the state s it captured,
\* as Some(cmd), or None when it returns without a command
botCommand(s) ==
  IF s.phase = "Bidding"
  THEN LET hand  == handOf(s, s.turn)
           max   == currentHandSize(s)
           total == sumBids(OrElse(s.bids, EmptyMap))
           bid   == estimateBid(hand, s.trump)
           fixed == IF isLastBidder(s, s.turn) /\ total + bid = max
                    THEN (IF bid > 0 THEN bid - 1 ELSE IF bid < max THEN bid + 1 ELSE bid)
                    ELSE bid
       IN  Some([type |-> "PLACE_BID", playerId |-> s.turn, bid |-> fixed])
  ELSE IF s.phase = "Trick"
  THEN LET hand == handOf(s, s.turn)
       IN  IF Len(hand) = 0 THEN None
           ELSE Some([type |-> "PLAY_CARD", playerId |-> s.turn,
                      card |-> chooseBotCard(hand, s.trick)])
  ELSE None

\* the auto-tick effect after a render: it runs again only when phase, timer
\* or autoTick differ from the render before; when it does, the old interval
\* is cleared and, in Trick with autoTick on, a new one captures the new state
tickEffect(prev, prevAuto, next, auto, interval) ==
  IF prev.phase = next.phase /\ prev.timer = next.timer /\ prevAuto = auto THEN interval
  ELSE IF next.phase # "Trick" \/ ~auto THEN None
  ELSE Some(next)

isBotTurn(s) ==
  /\ ~Falsy(s.turn)
  /\ \E i \in 1..Len(s.players) : s.players[i].id = s.turn
  /\ s.players[findIndex(s.players, s.turn) + 1].kind = "bot"

\* the bot effect after a render: it runs again only when phase, turn, hands,
\* bids or botsOn differ; when it does, the pending timeout is cleared and,
\* with a bot in turn and botsOn, a new one captures the new state
botEffect(prev, prevBots, next, bots, timeout) ==
  IF /\ prev.phase = next.phase /\ prev.turn = next.turn /\ prev.hands = next.hands
     /\ prev.bids = next.bids /\ prevBots = bots
  THEN timeout
  ELSE IF ~bots \/ ~isBotTurn(next) THEN None
  ELSE Some(next)

\* setState(next) and the render that follows it, with its effects
render(next, auto, bots, timeout) ==
  /\ state' = next
  /\ app' = [tick     |-> tickEffect(state, app.autoTick, next, auto, app.tick),
             bot      |-> botEffect(state, app.botsOn, next, bots, timeout),
             autoTick |-> auto,
             botsOn   |-> bots]

\* mounted: boot() has set the state, both switches are on, no timer runs
InitApp ==
  /\ state = initialState(AppSeed)
  /\ nextHands = 0
  /\ probe = NoProbe
  /\ app = [tick |-> None, bot |-> None, autoTick |-> TRUE, botsOn |-> TRUE]
  /\ engine = NoEngine

\* the size of the hand with 0-based index k of a START_GAME command, 0 past its end
cmdHandSize(cmd, k) == IF k + 1 \in 1..Len(cmd.handSizes) THEN cmd.handSizes[k + 1] ELSE 0

\* run(cmd) of the current render, called by a control; explored are the
\* matches whose first two deals stay within MaxAppDeal, up to the last
\* hand that does
Press ==
  \E cmd \in buttons(state) :
    /\ cmd.type = "ADD_PLAYER" => (seats(state) + 1) * cmdHandSize(onStartGame, 1) <= MaxAppDeal
    /\ cmd.type = "NEXT_HAND" => seats(state) * cmdHandSize(onStartGame, state.roundIndex + 1) <= MaxAppDeal
    /\ render(applyCommand(state, cmd).state, app.autoTick, app.botsOn, app.bot)
    /\ UNCHANGED <<nextHands, probe, engine>>

\* the interval's callback: TICK applied to the state it captured
IntervalTick ==
  /\ app.tick # None
  /\ render(applyCommand(app.tick[1], TickCmd).state, app.autoTick, app.botsOn, app.bot)
  /\ UNCHANGED <<nextHands, probe, engine>>

\* the bot timer's callback: the bot's command applied to the state it captured
BotTimeout ==
  /\ app.bot # None
  /\ LET cmd == botCommand(app.bot[1])
     IN  IF cmd = None
         THEN /\ app' = [app EXCEPT !.bot = None]
              /\ UNCHANGED state
         ELSE render(applyCommand(app.bot[1], cmd[1]).state, app.autoTick, app.botsOn, None)
  /\ UNCHANGED <<nextHands, probe, engine>>

ToggleAutoTick ==
  /\ render(state, ~app.autoTick, app.botsOn, app.bot)
  /\ UNCHANGED <<nextHands, probe, engine>>

ToggleBots ==
  /\ render(state, app.autoTick, ~app.botsOn, app.bot)
  /\ UNCHANGED <<nextHands, probe, engine>>

NextApp ==
  \/ Press
  \/ IntervalTick
  \/ BotTimeout
  \/ ToggleAutoTick
  \/ ToggleBots

AppSpec == InitApp /\ [][NextApp]_vars

\* ---- the event-sourced variant: GameEngine over validate, decide, evolve ----

ProtocolVersion == "0.1.0"

\* the result of a call that throws
Thrown == [thrown |-> TRUE]

initialStateOfSeed(seed) ==
  [seed            |-> seed,
   protocolVersion |-> ProtocolVersion,
   phase           |-> "lobby",
   players         |-> << >>,
   turn            |-> Null,
   turnIndex       |-> -1,
   eventCount      |-> 0,
   round           |-> 0]

AllowedByPhase ==
  [lobby   |-> {"ADD_PLAYER", "START_MATCH"},
   playing |-> {"END_TURN", "START_ROUND", "PLACE_BID", "PLAY_CARD", "COMPLETE_TRICK",
                "TALLY_SCORE"},
   ended   |-> {}]

isCommandAllowed(phase, cmdType) ==
  IF phase \in DOMAIN AllowedByPhase THEN cmdType \in AllowedByPhase[phase] ELSE FALSE

\* CommandSchema.safeParse(cmd).success
commandShape(cmd) ==
  CASE cmd.type = "ADD_PLAYER" -> cmd.playerId # ""
    [] cmd.type = "START_MATCH" -> TRUE
    [] cmd.type = "END_TURN" -> TRUE
    [] cmd.type = "START_ROUND" -> cmd.round >= 0
    [] cmd.type = "PLACE_BID" -> cmd.value >= 0
    [] cmd.type = "PLAY_CARD" -> cmd.card # ""
    [] cmd.type = "COMPLETE_TRICK" -> TRUE
    [] cmd.type = "TALLY_SCORE" -> TRUE
    [] OTHER -> FALSE

\* EventSchema.safeParse(ev).success: the ids are strings, null is not
eventShape(ev) ==
  CASE ev.type = "PLAYER_ADDED" -> ev.playerId # Null
    [] ev.type = "MATCH_STARTED" -> ev.firstPlayer # Null
    [] ev.type = "TURN_ENDED" -> ev.nextPlayer # Null
    [] ev.type = "ROUND_STARTED" -> ev.round >= 0
    [] ev.type = "BID_PLACED" -> ev.playerId # Null /\ ev.value >= 0
    [] ev.type = "CARD_PLAYED" -> ev.playerId # Null
    [] ev.type = "TRICK_COMPLETED" -> ev.winnerId # Null /\ ev.trickIndex >= 0
    [] ev.type = "SCORED" -> ev.playerId # Null
    [] OTHER -> FALSE

\* the error message, null for a command that passes
validate(s, cmd) ==
  IF ~commandShape(cmd) THEN "Invalid command shape."
  ELSE IF ~isCommandAllowed(s.phase, cmd.type) THEN "Command not allowed in phase."
  ELSE IF cmd.type = "ADD_PLAYER"
       THEN (IF includes(s.players, cmd.playerId) THEN "Player already added." ELSE Null)
  ELSE IF cmd.type = "START_MATCH"
       THEN (IF Len(s.players) < 2 THEN "Need at least 2 players." ELSE Null)
  ELSE IF cmd.type = "END_TURN"
       THEN (IF s.turnIndex < 0 \/ Falsy(s.turn) THEN "No current turn." ELSE Null)
  ELSE Null

\* the first output of makeRng(seed) is a number in [0, 1), the same for every
\* call with the same seed; it is kept in RngParts-ths
RngParts == 6

\* Math.floor(rng() * n) % n for the output r / RngParts
firstIndex(r, n) == ((r * n) \div RngParts) % n

\* the events of a command, Thrown when validate has a message; r is the
\* first output of makeRng(state.seed)
decide(s, cmd, r) ==
  IF validate(s, cmd) # Null THEN Thrown
  ELSE [events |->
       CASE cmd.type = "ADD_PLAYER" -> <<[type |-> "PLAYER_ADDED", playerId |-> cmd.playerId]>>
         [] cmd.type = "START_MATCH" ->
              <<[type |-> "MATCH_STARTED",
                 firstPlayer |-> s.players[firstIndex(r, Len(s.players)) + 1]]>>
         [] cmd.type = "END_TURN" ->
              <<[type |-> "TURN_ENDED",
                 nextPlayer |-> s.players[((s.turnIndex + 1) % Len(s.players)) + 1]]>>
         [] cmd.type = "START_ROUND" -> <<[type |-> "ROUND_STARTED", round |-> cmd.round]>>
         [] cmd.type = "PLACE_BID" ->
              <<[type |-> "BID_PLACED", playerId |-> s.turn, value |-> cmd.value]>>
         [] cmd.type = "PLAY_CARD" ->
              <<[type |-> "CARD_PLAYED", playerId |-> s.turn, card |-> cmd.card]>>
         [] cmd.type = "COMPLETE_TRICK" ->
              <<[type |-> "TRICK_COMPLETED", winnerId |-> s.turn, trickIndex |-> 0]>>
         [] cmd.type = "TALLY_SCORE" ->
              <<[type |-> "SCORED", playerId |-> s.turn, delta |-> 0]>>]

\* players.indexOf(id), 0-based, -1 when absent
indexOf(players, id) ==
  IF \E i \in 1..Len(players) : players[i] = id
  THEN (CHOOSE i \in 1..Len(players) :
          players[i] = id /\ \A j \in 1..(i - 1) : players[j] # id) - 1
  ELSE -1

evolve(s, ev) ==
  IF ~eventShape(ev) THEN Thrown
  ELSE CASE ev.type = "PLAYER_ADDED" ->
              [s EXCEPT !.players = Append(@, ev.playerId), !.eventCount = @ + 1]
         [] ev.type = "MATCH_STARTED" ->
              [s EXCEPT !.phase = "playing",
                        !.turn = ev.firstPlayer,
                        !.turnIndex = indexOf(s.players, ev.firstPlayer),
                        !.eventCount = @ + 1]
         [] ev.type = "TURN_ENDED" ->
              [s EXCEPT !.turn = ev.nextPlayer,
                        !.turnIndex = indexOf(s.players, ev.nextPlayer),
                        !.eventCount = @ + 1]
         [] ev.type = "ROUND_STARTED" -> [s EXCEPT !.round = ev.round, !.eventCount = @ + 1]
         [] OTHER -> [s EXCEPT !.eventCount = @ + 1]

\* for (const ev of events) s = evolve(s, ev), Thrown as soon as evolve throws
RECURSIVE evolveAll(_, _, _)
evolveAll(s, events, i) ==
  IF i > Len(events) THEN s
  ELSE IF evolve(s, events[i]) = Thrown THEN Thrown
  ELSE evolveAll(evolve(s, events[i]), events, i + 1)

\* { state, events } of the reducer, Thrown when decide or evolve throws
applyCommandToEvents(s, cmd, r) ==
  LET decided == decide(s, cmd, r)
  IN  IF decided = Thrown THEN Thrown
      ELSE IF evolveAll(s, decided.events, 1) = Thrown THEN Thrown
      ELSE [state |-> evolveAll(s, decided.events, 1), events |-> decided.events]

replay(seed, events) == evolveAll(initialStateOfSeed(seed), events, 1)

\* a GameEngine object: _state and _log; seed is the seed its constructor was
\* given, rng the first output of makeRng for that seed, threw tells whether
\* the last call threw
newEngine(seed, existingLog, r) ==
  IF existingLog = None
  THEN [seed |-> seed, rng |-> r, state |-> initialStateOfSeed(seed), log |-> << >>,
        threw |-> FALSE]
  ELSE IF replay(seed, existingLog[1]) = Thrown THEN Thrown
  ELSE [seed |-> seed, rng |-> r, state |-> replay(seed, existingLog[1]),
        log |-> existingLog[1], threw |-> FALSE]

\* dispatch that does not append the events to the log
dispatchUnlogged(e, cmd) ==
  LET result == applyCommandToEvents(e.state, cmd, e.rng)
  IN  IF result = Thrown THEN [e EXCEPT !.threw = TRUE]
      ELSE [e EXCEPT !.state = result.state, !.threw = FALSE]

dispatch(e, cmd) ==
  LET result == applyCommandToEvents(e.state, cmd, e.rng)
  IN  IF result = Thrown THEN [e EXCEPT !.threw = TRUE]
      ELSE [e EXCEPT !.state = result.state,
                     !.log = IF Len(result.events) > 0 THEN @ \o result.events ELSE @,
                     !.threw = FALSE]

reset(e) == [e EXCEPT !.state = initialStateOfSeed(e.state.seed), !.log = << >>, !.threw = FALSE]

\* the events an engine's log may hold in an explored run
MaxLog == 5

\* "dev-seed" is the constructor's default
EngineSeeds == {"dev-seed", "seed-123"}

EngineCmds ==
  {[type |-> "ADD_PLAYER", playerId |-> p] : p \in PlayerIds \cup {""}}
    \cup {[type |-> "START_ROUND", round |-> n] : n \in {-1, 1}}
    \cup {[type |-> "PLACE_BID", value |-> n] : n \in {-1, 0}}
    \cup {[type |-> "PLAY_CARD", card |-> c] : c \in {"", "AS"}}
    \cup {[type |-> t] : t \in {"START_MATCH", "END_TURN", "COMPLETE_TRICK", "TALLY_SCORE",
                                 "TICK"}}

\* the logs an engine is constructed from: none, one recorded by a match, one
\* that no sequence of commands records, one with an event evolve rejects
ExistingLogs ==
  {None,
   Some(<<[type |-> "PLAYER_ADDED", playerId |-> "a"],
          [type |-> "PLAYER_ADDED", playerId |-> "b"],
          [type |-> "MATCH_STARTED", firstPlayer |-> "b"]>>),
   Some(<<[type |-> "PLAYER_ADDED", playerId |-> "a"],
          [type |-> "PLAYER_ADDED", playerId |-> "a"],
          [type |-> "MATCH_STARTED", firstPlayer |-> "z"]>>),
   Some(<<[type |-> "ROUND_STARTED", round |-> -1]>>)}

InitEngine ==
  /\ state \in {initialState(seed) : seed \in Seeds}
  /\ nextHands = 0
  /\ probe = NoProbe
  /\ app = NoApp
  /\ engine \in {newEngine(seed, existingLog, r) :
                   seed \in EngineSeeds, existingLog \in ExistingLogs, r \in 0..(RngParts - 1)}
                  \ {Thrown}

Dispatch ==
  \E cmd \in EngineCmds :
    /\ Len(engine.log) < MaxLog
    /\ engine' = dispatch(engine, cmd)
    /\ UNCHANGED <<state, nextHands, probe, app>>

Reset ==
  /\ engine' = reset(engine)
  /\ UNCHANGED <<state, nextHands, probe, app>>

NextEngine ==
  \/ Dispatch
  \/ Reset

EngineSpec == InitEngine /\ [][NextEngine]_vars

\* ---- the commands a caller can send ----------------------------------------

\* a command type the reducer does not know (the mobile App sends it)
UnknownCmd == [type |-> "REMOVE_PLAYER", playerId |-> "a"]

AllCmds ==
  AddPlayerCmds \cup StartGameCmds \cup PlaceBidCmds \cup SetTrumpCmds \cup PlayCardCmds
    \cup {TickCmd, NextTurnCmd, NextHandCmd, UnknownCmd}

ids(s) == {s.players[i].id : i \in 1..Len(s.players)}

handSize(s) == s.handSizes[s.roundIndex + 1]

\* ---- C1 ---------------------------------------------------------------------
\* C1: whenever every player has a recorded bid for the current hand (phase
\* Trick or Scoring), the sum of all recorded bids differs from
\* handSizes[roundIndex].
RECURSIVE bidTotal(_, _)
bidTotal(s, i) == IF i = 0 THEN 0 ELSE s.bids[1][s.players[i].id] + bidTotal(s, i - 1)

C1_BidsNeverSumToHandSize ==
  (state.phase \in {"Trick", "Scoring"} /\ \A p \in ids(state) : p \in DOMAIN state.bids[1])
    => bidTotal(state, Len(state.players)) # handSize(state)

\* ---- C2 ---------------------------------------------------------------------
\* C2: PLAY_CARD(playerId, card) changes the state only if the phase is Trick,
\* playerId is the turn, the card is in that player's hand, and the trick has
\* no plays, or the card has the suit of the trick's first play, or the player
\* holds no card of that suit.
heldBy(s, p) == IF s.hands # None /\ p \in DOMAIN s.hands[1]
                THEN {s.hands[1][p][i] : i \in 1..Len(s.hands[1][p])} ELSE {}

leadSuitOf(s) == s.trick[1].plays[1].card[2]

C2_PlayCardGuard ==
  \A cmd \in PlayCardCmds :
    step(state, cmd) # state =>
      /\ state.phase = "Trick"
      /\ cmd.playerId = state.turn
      /\ cmd.card \in heldBy(state, cmd.playerId)
      /\ \/ state.trick = None
         \/ state.trick[1].plays = << >>
         \/ cmd.card[2] = leadSuitOf(state)
         \/ \A c \in heldBy(state, cmd.playerId) : c[2] # leadSuitOf(state)

\* a play has been made and the player in turn holds a card of the lead suit
\* and a card of another suit
C2_Witness ==
  /\ state.phase = "Trick"
  /\ state.trick # None
  /\ \E c \in heldBy(state, state.turn) : c[2] = leadSuitOf(state)
  /\ \E c \in heldBy(state, state.turn) : c[2] # leadSuitOf(state)

\* ---- C3 ---------------------------------------------------------------------
\* C3: a command issued in a phase other than the one the transition table
\* lists for it returns the state unchanged, and a command of unknown type
\* returns the state unchanged in every phase.
PhaseFor ==
  [ADD_PLAYER |-> "Lobby", START_GAME |-> "Lobby", PLACE_BID |-> "Bidding",
   SET_TRUMP |-> "Bidding", PLAY_CARD |-> "Trick", TICK |-> "Trick",
   NEXT_TURN |-> "Trick", NEXT_HAND |-> "Scoring"]

C3_WrongPhaseIsNoOp ==
  \A cmd \in AllCmds :
    (cmd.type \notin DOMAIN PhaseFor \/ PhaseFor[cmd.type] # state.phase)
      => step(state, cmd) = state

\* ---- C4 ---------------------------------------------------------------------
\* C4: a resolved trick is won by the player of the highest-ranked play of
\* the trump suit when the trump is a suit and some play is of that suit, and
\* otherwise by the player of the highest-ranked play in the suit of the first
\* play; A is the highest rank and 2 the lowest; the winner played in the trick.
strength(card) ==
  CASE card[1] = "A" -> 14 [] card[1] = "K" -> 13 [] card[1] = "Q" -> 12
    [] card[1] = "J" -> 11 [] card[1] = "10" -> 10 [] card[1] = "9" -> 9
    [] card[1] = "8" -> 8 [] card[1] = "7" -> 7 [] card[1] = "6" -> 6
    [] card[1] = "5" -> 5 [] card[1] = "4" -> 4 [] card[1] = "3" -> 3
    [] card[1] = "2" -> 2

C4_TrickWinner ==
  probe.winner # Null =>
    LET ps       == probe.plays
        trumped  == probe.trump \in {"S", "H", "D", "C"}
                      /\ \E i \in 1..Len(ps) : ps[i].card[2] = probe.trump
        suit     == IF trumped THEN probe.trump ELSE ps[1].card[2]
        inSuit   == {i \in 1..Len(ps) : ps[i].card[2] = suit}
    IN  \E i \in inSuit :
          /\ ps[i].playerId = probe.winner
          /\ \A j \in inSuit : strength(ps[i].card) >= strength(ps[j].card)

\* K of hearts led, the 2 of spades trumps it, the ace of hearts follows:
\* the trump wins
C4_Witness ==
  /\ probe.winner = "b"
  /\ probe.trump = "S"
  /\ probe.plays = <<[playerId |-> "a", card |-> <<"K", "H">>],
                     [playerId |-> "b", card |-> <<"2", "S">>],
                     [playerId |-> "c", card |-> <<"A", "H">>]>>

\* ---- C5 ---------------------------------------------------------------------
\* C5: the step that scores a hand changes scores[p] by exactBonus + bids[p]
\* if tableWins[p] = bids[p], and otherwise by 0 (missMode "zero") or
\* tableWins[p] (missMode "wins"); no other step after START_GAME changes
\* the scores.
award(s, p) ==
  IF s.tableWins[1][p] = s.bids[1][p] THEN s.scoring[1].exactBonus + s.bids[1][p]
  ELSE IF s.scoring[1].missMode = "zero" THEN 0 ELSE s.tableWins[1][p]

C5_ScoringLaw ==
  [][IF state.phase = "Scoring" /\ state'.phase # "Scoring"
     THEN \A p \in ids(state) : state'.scores[p] = state.scores[p] + award(state, p)
     ELSE state.phase # "Lobby" => state'.scores = state.scores]_vars

\* a two-hand match has ended, one player was paid an exact bid in both hands
\* and another player missed at least once
C5_Witness ==
  /\ state.phase = "RoundEnd"
  /\ Len(state.handSizes) = 2
  /\ \E p \in ids(state) : state.scores[p] >= 2 * state.scoring[1].exactBonus
  /\ \E p \in ids(state) : state.scores[p] < 2 * state.scoring[1].exactBonus

\* ---- C7 ---------------------------------------------------------------------
\* C7: after START_GAME with a non-empty handSizes the phase is RoundEnd
\* exactly when handSizes.length NEXT_HAND commands have been accepted; in
\* RoundEnd hands, trick and tableWins are absent and bids is empty.
C7_RoundTermination ==
  (state.phase # "Lobby" /\ Len(state.handSizes) > 0) =>
    /\ nextHands <= Len(state.handSizes)
    /\ state.phase = "RoundEnd" <=> nextHands = Len(state.handSizes)
    /\ state.phase = "RoundEnd" =>
         /\ state.hands = None
         /\ state.trick = None
         /\ state.tableWins = None
         /\ state.bids = Some(EmptyMap)

C7_Witness ==
  /\ state.phase = "RoundEnd"
  /\ Len(state.handSizes) = 2
  /\ nextHands = 2

\* ---- C8 ---------------------------------------------------------------------
\* C8: a command changes the phase only along Lobby -> Bidding (START_GAME),
\* Bidding -> Trick (the PLACE_BID that completes the bids), Trick -> Scoring
\* (a PLAY_CARD or TICK that plays the hand's last card), Scoring -> Bidding
\* and Scoring -> RoundEnd (NEXT_HAND).
cardsLeft(s) == IF s.hands = None THEN {} ELSE UNION {heldBy(s, p) : p \in ids(s)}

C8_PhaseEdges ==
  \A cmd \in AllCmds :
    LET s2 == step(state, cmd)
    IN  s2.phase # state.phase =>
          \/ /\ state.phase = "Lobby" /\ s2.phase = "Bidding"
             /\ cmd.type = "START_GAME"
          \/ /\ state.phase = "Bidding" /\ s2.phase = "Trick"
             /\ cmd.type = "PLACE_BID"
             /\ DOMAIN state.bids[1] # ids(state)
             /\ DOMAIN s2.bids[1] = ids(state)
          \/ /\ state.phase = "Trick" /\ s2.phase = "Scoring"
             /\ cmd.type \in {"PLAY_CARD", "TICK"}
             /\ Cardinality(cardsLeft(state)) = 1
             /\ cardsLeft(s2) = {}
          \/ /\ state.phase = "Scoring" /\ s2.phase \in {"Bidding", "RoundEnd"}
             /\ cmd.type = "NEXT_HAND"

\* the second hand of a match is being played: every edge but the one to
\* RoundEnd has been taken
C8_Witness ==
  /\ state.phase = "Trick"
  /\ state.roundIndex = 1

\* ---- C9 ---------------------------------------------------------------------
\* C9: in Bidding, PLACE_BID(playerId, bid) is accepted (the bid is recorded
\* and the state changes) if and only if playerId is the turn,
\* 0 <= bid <= handSizes[roundIndex], and not (the player immediately precedes
\* players[leadIndex] in ring order and the placed bids plus bid sum to
\* handSizes[roundIndex]); otherwise the state is unchanged.
RECURSIVE placedTotal(_, _)
placedTotal(s, i) ==
  IF i = 0 THEN 0
  ELSE (IF s.players[i].id \in DOMAIN s.bids[1] THEN s.bids[1][s.players[i].id] ELSE 0)
         + placedTotal(s, i - 1)

beforeLeader(s) == s.players[((s.leadIndex + Len(s.players) - 1) % Len(s.players)) + 1].id

C9_BidAccepted ==
  (state.phase = "Bidding" /\ state.roundIndex < Len(state.handSizes)) =>
    \A cmd \in PlaceBidCmds :
      LET s2 == step(state, cmd)
          ok == /\ cmd.playerId = state.turn
                /\ 0 <= cmd.bid /\ cmd.bid <= handSize(state)
                /\ ~(/\ cmd.playerId = beforeLeader(state)
                     /\ placedTotal(state, Len(state.players)) + cmd.bid = handSize(state))
      IN  IF ok
          THEN s2 # state /\ cmd.playerId \in DOMAIN s2.bids[1]
                 /\ s2.bids[1][cmd.playerId] = cmd.bid
          ELSE s2 = state

\* two players, hand size 1, the leader has bid 0 and the other player is to bid
C9_Witness ==
  /\ state.phase = "Bidding"
  /\ Len(state.players) = 2
  /\ state.handSizes = <<1>>
  /\ state.turn = beforeLeader(state)
  /\ state.turn = state.players[2].id
  /\ state.bids[1] = [p \in {state.players[1].id} |-> 0]

\* ---- C10 --------------------------------------------------------------------
\* C10: a stored trick holds between 1 and players.length - 1 plays; a step
\* resolves a trick (one tableWins entry goes up by 1 and the trick is
\* cleared) exactly when it plays the card that brings the trick to
\* players.length plays.
trickBounded ==
  state.trick # None =>
    /\ Len(state.trick[1].plays) >= 1
    /\ Len(state.trick[1].plays) <= Len(state.players) - 1

cardPlayed ==
  /\ state.phase = "Trick"
  /\ state'.hands # None
  /\ Cardinality(cardsLeft(state')) = Cardinality(cardsLeft(state)) - 1

resolved ==
  /\ state.tableWins # None
  /\ state'.tableWins # None
  /\ state'.trick = None
  /\ \E w \in ids(state) :
       state'.tableWins[1] = [state.tableWins[1] EXCEPT ![w] = @ + 1]

C10_TrickResolution ==
  /\ []trickBounded
  /\ [][resolved <=> (cardPlayed /\ Len(trickPlays(state)) + 1 = Len(state.players))]_vars

\* one trick of the hand is resolved and the next one is in progress
C10_Witness ==
  /\ state.phase = "Trick"
  /\ state.trick # None
  /\ \E p \in ids(state) : state.tableWins[1][p] = 1

\* ---- C11 --------------------------------------------------------------------
\* a command that breaks a phase, turn, rule or capacity condition of the
\* transition table (NEXT_TURN, which has no guard, is left out)
violates(s, cmd) ==
  \/ /\ cmd.type \in DOMAIN PhaseFor \ {"NEXT_TURN"}
     /\ PhaseFor[cmd.type] # s.phase
  \/ /\ cmd.type \in {"PLACE_BID", "PLAY_CARD"}
     /\ PhaseFor[cmd.type] = s.phase
     /\ cmd.playerId # s.turn
  \/ /\ cmd.type = "PLACE_BID" /\ s.phase = "Bidding"
     /\ s.roundIndex < Len(s.handSizes)
     /\ (cmd.bid < 0 \/ cmd.bid > handSize(s))
  \/ /\ cmd.type = "PLAY_CARD" /\ s.phase = "Trick"
     /\ cmd.card \notin heldBy(s, cmd.playerId)
  \/ /\ cmd.type = "ADD_PLAYER" /\ s.phase = "Lobby"
     /\ (cmd.playerId \in ids(s) \/ Len(s.players) >= 7)
  \/ /\ cmd.type = "START_GAME" /\ s.phase = "Lobby"
     /\ Len(s.players) < 2

C12_RoundEndIsFinal ==
  state.phase = "RoundEnd" =>
    \A cmd \in AllCmds :
      LET s2 == applyCommand(state, cmd).state
      IN  /\ s2.phase = "RoundEnd"
          /\ s2.scores = state.scores
          /\ s2.bids = state.bids
          /\ s2.trump = state.trump
          /\ s2.hands = state.hands
          /\ s2.trick = state.trick
          /\ s2.tableWins = state.tableWins
          /\ s2.roundIndex = state.roundIndex
          /\ s2.leadIndex = state.leadIndex

\* a match has ended with points on the board, and a command sent after the
\* end has already changed a field the claim does not list (the timer)
C12_Witness ==
  /\ state.phase = "RoundEnd"
  /\ state.timer # None
  /\ \E p \in ids(state) : state.scores[p] > 0

\* ---- C13 --------------------------------------------------------------------
\* C13: the player ids are pairwise distinct and there are at most 7 players;
\* the players sequence changes only in Lobby, by appending one player with
\* a new id; hence outside Lobby there are between 2 and 7 players and the
\* sequence is the one START_GAME found.
playersBounded ==
  /\ \A i, j \in 1..Len(state.players) :
       state.players[i].id = state.players[j].id => i = j
  /\ Len(state.players) <= 7
  /\ state.phase # "Lobby" => Len(state.players) >= 2

playerAppended ==
  /\ state.phase = "Lobby"
  /\ state'.phase = "Lobby"
  /\ Len(state'.players) = Len(state.players) + 1
  /\ SubSeq(state'.players, 1, Len(state.players)) = state.players
  /\ state'.players[Len(state'.players)].id \notin ids(state)

C13_Players ==
  /\ []playersBounded
  /\ [][state'.players # state.players => playerAppended]_vars

\* seven players are seated and the ADD_PLAYER of an eighth id is rejected
C13_Witness ==
  /\ Len(state.players) = 7
  /\ \E cmd \in AddPlayerWideCmds :
       cmd.playerId \notin ids(state) /\ applyCommand(state, cmd).state = state

\* ---- C14 --------------------------------------------------------------------
\* C14: while a hand is bid, played or scored, handSizes[roundIndex] times
\* the number of players is at most 52, and after the deal (until the first
\* card is played) every player holds exactly handSizes[roundIndex] cards.
C14_DealFitsDeck ==
  (state.phase \in {"Bidding", "Trick", "Scoring"} /\ state.roundIndex < Len(state.handSizes)) =>
    /\ handSize(state) * Len(state.players) <= 52
    /\ state.phase = "Bidding" =>
         \A p \in ids(state) : Len(state.hands[1][p]) = handSize(state)

\* ---- C15 --------------------------------------------------------------------
\* C15 (as claimed): turn is null in Lobby, Scoring and RoundEnd and is
\* non-null in Bidding and Trick.
C15_TurnOnlyInActivePhases ==
  /\ state.phase \in {"Lobby", "Scoring", "RoundEnd"} => state.turn = Null
  /\ state.phase \in {"Bidding", "Trick"} => state.turn # Null

\* C15 (amended): turn is null in Lobby and non-null in Bidding, Trick,
\* Scoring and RoundEnd.
C15_TurnNullOnlyInLobby ==
  state.turn = Null <=> state.phase = "Lobby"

\* a hand has been played out and a match has ended: turn still names a player
C15_Witness ==
  /\ state.phase = "RoundEnd"
  /\ state.turn \in ids(state)
  /\ Len(state.handSizes) = 2

\* ---- C16 --------------------------------------------------------------------
\* C16: a non-null turn is the id of one of the current players.
C16_TurnIsAPlayer ==
  state.turn # Null => state.turn \in ids(state)

\* the turn has gone once around a table of three: it is back at the leader
\* after the last player in the sequence held it
C16_Witness ==
  /\ Len(state.players) = 3
  /\ state.phase = "Trick"
  /\ state.trick # None
  /\ Len(state.trick[1].plays) = 2
  /\ state.trick[1].leader = state.players[2].id
  /\ state.turn = state.players[1].id

\* ---- C17 --------------------------------------------------------------------
\* C17: timer is null in every phase but Trick; in Trick it is a number and
\* at most turnSeconds.
C17_TimerOnlyInTrick ==
  IF state.phase = "Trick"
  THEN state.timer # None /\ state.timer[1] <= state.turnSeconds
  ELSE state.timer = None

\* ---- C18 --------------------------------------------------------------------
\* C18 (as claimed): the step that plays the last card of a hand, taking the
\* phase from Trick to Scoring, adds the hand's award to every player's
\* score, so the scores of the Scoring phase include the hand just played.
C18_ScoredOnEnteringScoring ==
  [][(state.phase = "Trick" /\ state'.phase = "Scoring") =>
       \A p \in ids(state) : state'.scores[p] = state.scores[p] + award(state', p)]_vars

\* C18 (amended): the step that plays the last card of a hand leaves the
\* scores as they are; the hand's award is added by the accepted NEXT_HAND,
\* the step that leaves Scoring.
C18_ScoredOnNextHand ==
  [][/\ (state.phase = "Trick" /\ state'.phase = "Scoring") =>
          state'.scores = state.scores
     /\ (state.phase = "Scoring" /\ state'.phase \in {"Bidding", "RoundEnd"}) =>
          \A p \in ids(state) : state'.scores[p] = state.scores[p] + award(state, p)]_vars

\* the first hand is played out, a player has earned points for it, and the
\* scores are still all zero
C18_Witness ==
  /\ state.phase = "Scoring"
  /\ state.roundIndex = 0
  /\ \E p \in ids(state) : award(state, p) > 0
  /\ \A p \in ids(state) : state.scores[p] = 0

\* ---- C19 --------------------------------------------------------------------
\* C19: in Trick a TICK with timer - 1 > 0 lowers timer by 1 and changes
\* nothing else; a TICK with timer - 1 <= 0 makes the player in turn play:
\* one card leaves that player's hand and no other hand changes (a player
\* without cards passes the turn on instead). So a turn that starts with
\* timer = turnSeconds = T counts down for T - 1 TICKs and the T-th TICK
\* forces the play.
forcedPlay(s, s2) ==
  IF heldBy(s, s.turn) = {}
  THEN s2.hands = s.hands /\ s2.turn # s.turn
  ELSE /\ \E c \in heldBy(s, s.turn) :
            /\ heldBy(s2, s.turn) = heldBy(s, s.turn) \ {c}
            /\ \/ s2.trick = None
               \/ s2.trick[1].plays =
                    Append(trickPlays(s), [playerId |-> s.turn, card |-> c])
       /\ \A q \in ids(s) \ {s.turn} : heldBy(s2, q) = heldBy(s, q)

C19_Tick ==
  (state.phase = "Trick" /\ state.timer # None) =>
    LET s2 == applyCommand(state, TickCmd).state
        t  == state.timer[1]
    IN  IF t - 1 > 0
        THEN s2 = [state EXCEPT !.timer = Some(t - 1)]
        ELSE forcedPlay(state, s2)

\* a turn of 2 seconds has been counted down to 1 by a TICK, the player in
\* turn holds cards, and the next TICK plays one of them
C19_Witness ==
  /\ state.phase = "Trick"
  /\ state.turnSeconds = 2
  /\ state.timer = Some(1)
  /\ heldBy(state, state.turn) # {}
  /\ applyCommand(state, TickCmd).state.hands # state.hands

\* ---- C20 --------------------------------------------------------------------
\* C20: when a TICK expires the timer and the player in turn holds a card,
\* the resulting state is the one PLAY_CARD(turn, c) produces, where c is a
\* lowest-ranked card of the lead suit in the hand if the trick has a lead
\* suit and the player holds a card of it, and otherwise a lowest-ranked
\* card of the whole hand; c is a legal play and the state changes.
autoPool(s) ==
  LET hand   == heldBy(s, s.turn)
      inLead == IF trickPlays(s) = << >> THEN {}
                ELSE {c \in hand : c[2] = trickPlays(s)[1].card[2]}
  IN  IF inLead # {} THEN inLead ELSE hand

C20_AutoPlayIsPlayCard ==
  (/\ state.phase = "Trick"
   /\ state.timer # None
   /\ state.timer[1] - 1 <= 0
   /\ heldBy(state, state.turn) # {}) =>
    LET s2 == applyCommand(state, TickCmd).state
    IN  /\ s2 # state
        /\ \E c \in autoPool(state) :
             /\ \A d \in autoPool(state) : strength(c) <= strength(d)
             /\ s2 = applyCommand(state, [type |-> "PLAY_CARD",
                                          playerId |-> state.turn, card |-> c]).state
             /\ \/ trickPlays(state) = << >>
                \/ c[2] = trickPlays(state)[1].card[2]
                \/ \A d \in heldBy(state, state.turn) : d[2] # trickPlays(state)[1].card[2]

\* the timer is about to expire on a player who holds a card of the lead
\* suit and a higher card of another suit
C20_Witness ==
  /\ state.phase = "Trick"
  /\ state.timer = Some(1)
  /\ state.trick # None
  /\ \E c, d \in heldBy(state, state.turn) :
       /\ c[2] = leadSuitOf(state)
       /\ d[2] # leadSuitOf(state)
       /\ strength(d) > strength(c)
  /\ applyCommand(state, TickCmd).state # state

\* ---- C21 --------------------------------------------------------------------
\* C21: in Bidding SET_TRUMP(t) sets trump to t and changes nothing else,
\* whoever is in turn and however many bids are placed; in every other phase
\* it leaves the state unchanged. Hence trump does not change from the moment
\* a hand is in Trick until the next deal, and every deal sets trump to "NT".
setTrumpFrame ==
  \A cmd \in SetTrumpCmds :
    applyCommand(state, cmd).state =
      IF state.phase = "Bidding" THEN [state EXCEPT !.trump = cmd.trump] ELSE state

trumpKept ==
  /\ (state.phase \in {"Trick", "Scoring", "RoundEnd"} /\ state'.phase # "Bidding") =>
       state'.trump = state.trump
  /\ (state.phase # "Bidding" /\ state'.phase = "Bidding") => state'.trump = "NT"

C21_SetTrump ==
  /\ []setTrumpFrame
  /\ [][trumpKept]_vars

\* the second hand of a match is played under a trump suit: the deal had
\* reset the trump of the first hand and SET_TRUMP chose one again
C21_Witness ==
  /\ state.phase = "Trick"
  /\ state.roundIndex = 1
  /\ state.trump \in {"S", "H", "D", "C"}

\* ---- C22 --------------------------------------------------------------------
\* C22: right after an accepted START_GAME, and after an accepted NEXT_HAND
\* that does not end the round, the phase is Bidding, every player holds
\* handSizes[roundIndex] cards, nobody has a bid, trump is "NT", every
\* tableWins entry is 0, no trick is in progress, timer is null and turn is
\* players[leadIndex].
freshHand(s) ==
  /\ s.phase = "Bidding"
  /\ s.hands # None
  /\ s.roundIndex < Len(s.handSizes) =>
       \A p \in ids(s) : p \in DOMAIN s.hands[1] /\ Len(s.hands[1][p]) = handSize(s)
  /\ s.bids = Some(EmptyMap)
  /\ s.trump = "NT"
  /\ s.tableWins = Some([p \in ids(s) |-> 0])
  /\ s.trick = None
  /\ s.timer = None
  /\ s.turn = s.players[s.leadIndex + 1].id

C22_FreshHand ==
  [][(state.phase \in {"Lobby", "Scoring"} /\ state'.phase \notin {state.phase, "RoundEnd"})
       => freshHand(state')]_vars

\* ---- C23 --------------------------------------------------------------------
\* C23: an accepted PLACE_BID records the bid of the acting player and
\* leaves hands, trump, scores, roundIndex and leadIndex unchanged; if every
\* player then has a bid, the phase becomes Trick with turn = players[leadIndex],
\* timer = turnSeconds and no trick in progress; otherwise the phase stays
\* Bidding and turn becomes the next player in ring order.
ringNext(s, p) ==
  LET k == CHOOSE i \in 1..Len(s.players) : s.players[i].id = p
  IN  s.players[(k % Len(s.players)) + 1].id

C23_PlaceBid ==
  \A cmd \in PlaceBidCmds :
    LET s2 == applyCommand(state, cmd).state
    IN  s2 # state =>
          /\ cmd.playerId \in DOMAIN s2.bids[1]
          /\ s2.bids[1][cmd.playerId] = cmd.bid
          /\ \A q \in DOMAIN state.bids[1] \ {cmd.playerId} :
               q \in DOMAIN s2.bids[1] /\ s2.bids[1][q] = state.bids[1][q]
          /\ s2.hands = state.hands
          /\ s2.trump = state.trump
          /\ s2.scores = state.scores
          /\ s2.roundIndex = state.roundIndex
          /\ s2.leadIndex = state.leadIndex
          /\ IF ids(state) \subseteq DOMAIN s2.bids[1]
             THEN /\ s2.phase = "Trick"
                  /\ s2.turn = state.players[state.leadIndex + 1].id
                  /\ s2.timer = Some(state.turnSeconds)
                  /\ s2.trick = None
             ELSE /\ s2.phase = "Bidding"
                  /\ s2.turn = ringNext(state, cmd.playerId)

\* all bids of the second hand of a match are placed and the first card is
\* still to be played
C23_Witness ==
  /\ state.phase = "Trick"
  /\ state.roundIndex = 1
  /\ state.trick = None
  /\ state.timer = Some(state.turnSeconds)
  /\ state.turn = state.players[state.leadIndex + 1].id
  /\ \A p \in ids(state) : Len(state.hands[1][p]) = 1

\* ---- C24 --------------------------------------------------------------------
\* C24: an accepted PLAY_CARD that brings the trick to players.length plays
\* adds 1 to the tableWins of the winner, clears the trick and gives the
\* winner the turn; if no player holds a card after it the phase becomes
\* Scoring and timer null, otherwise the phase stays Trick with
\* timer = turnSeconds. An accepted PLAY_CARD that does not complete the
\* trick appends the play, gives the turn to the next player in ring order
\* after the acting player and resets timer to turnSeconds.
C24_PlayCard ==
  \A cmd \in PlayCardCmds :
    LET s2    == applyCommand(state, cmd).state
        plays == Append(trickPlays(state), [playerId |-> cmd.playerId, card |-> cmd.card])
    IN  s2 # state =>
          IF Len(plays) = Len(state.players)
          THEN /\ s2.trick = None
               /\ \E i \in 1..Len(plays) :
                    /\ s2.turn = plays[i].playerId
                    /\ s2.tableWins[1] =
                         [state.tableWins[1] EXCEPT ![plays[i].playerId] = @ + 1]
               /\ IF cardsLeft(s2) = {}
                  THEN s2.phase = "Scoring" /\ s2.timer = None
                  ELSE s2.phase = "Trick" /\ s2.timer = Some(state.turnSeconds)
          ELSE /\ s2.trick # None
               /\ s2.trick[1].plays = plays
               /\ s2.turn = ringNext(state, cmd.playerId)
               /\ s2.timer = Some(state.turnSeconds)
               /\ s2.phase = "Trick"
               /\ s2.tableWins = state.tableWins

\* the first trick of a two-card hand is resolved, cards are left and the
\* winner is to lead the second trick
C24_Witness ==
  /\ state.phase = "Trick"
  /\ state.trick = None
  /\ state.timer = Some(state.turnSeconds)
  /\ \E p \in ids(state) : state.tableWins[1][p] = 1 /\ state.turn = p
  /\ cardsLeft(state) # {}

\* ---- C25 --------------------------------------------------------------------
\* C25: within a hand the bids are recorded in ring order starting with
\* players[leadIndex], one per player: a step that records a bid records it
\* for the player who follows the players that have bid, and a recorded bid
\* is neither replaced nor changed before the hand is scored.
ringFrom(s, k) == s.players[((s.leadIndex + k) % Len(s.players)) + 1].id

C25_BidsInRingOrder ==
  [][(state.phase \in {"Bidding", "Trick"} /\ state'.phase \in {"Bidding", "Trick", "Scoring"}) =>
       /\ \A q \in DOMAIN state.bids[1] :
            q \in DOMAIN state'.bids[1] /\ state'.bids[1][q] = state.bids[1][q]
       /\ state'.bids # state.bids =>
            DOMAIN state'.bids[1] =
              DOMAIN state.bids[1] \cup {ringFrom(state, Cardinality(DOMAIN state.bids[1]))}]_vars

\* ---- C26 --------------------------------------------------------------------
\* C26: the plays of the trick in progress are by pairwise different
\* players, and whenever cards are dealt and no trick is in progress all
\* players hold the same number of cards.
C26_OnePlayPerPlayer ==
  /\ state.trick # None =>
       \A i, j \in 1..Len(state.trick[1].plays) :
         state.trick[1].plays[i].playerId = state.trick[1].plays[j].playerId => i = j
  /\ (state.hands # None /\ state.trick = None) =>
       \A p, q \in ids(state) : Len(handOf(state, p)) = Len(handOf(state, q))

\* ---- C27 --------------------------------------------------------------------
\* C27: START_GAME accepts a first hand of size 0; while a hand of size 0 is
\* bid, no PLACE_BID of the player before players[leadIndex] is accepted,
\* that player never has a bid, and no command takes the phase out of
\* Bidding.
zeroHand(s) ==
  s.phase = "Bidding" /\ s.roundIndex < Len(s.handSizes) /\ handSize(s) = 0

zeroHandStuck ==
  /\ (state.phase = "Lobby" /\ Len(state.players) >= 2) =>
       \A cmd \in StartGameCmds :
         cmd.handSizes = <<0>> => zeroHand(applyCommand(state, cmd).state)
  /\ zeroHand(state) =>
       /\ beforeLeader(state) \notin DOMAIN state.bids[1]
       /\ \A cmd \in PlaceBidCmds :
            cmd.playerId = beforeLeader(state) => applyCommand(state, cmd).state = state
       /\ \A cmd \in AllCmds : zeroHand(applyCommand(state, cmd).state)

C27_ZeroHandDeadlock ==
  /\ []zeroHandStuck
  /\ [][zeroHand(state) => zeroHand(state')]_vars

\* a hand of size 0 with three players: the two players who can bid have
\* bid, and the turn is with the player before the leader
C27_Witness ==
  /\ zeroHand(state)
  /\ Len(state.players) = 3
  /\ Cardinality(DOMAIN state.bids[1]) = 2
  /\ state.turn = beforeLeader(state)

\* ---- C28 --------------------------------------------------------------------
\* C28: after START_GAME leadIndex equals roundIndex mod players.length, and
\* a hand that starts has players[roundIndex mod players.length] in turn.
leadFollowsRound ==
  state.phase # "Lobby" => state.leadIndex = state.roundIndex % Len(state.players)

C28_LeadRotation ==
  /\ []leadFollowsRound
  /\ [][(state'.phase = "Bidding" /\ state.phase # "Bidding") =>
          state'.turn = state'.players[(state'.roundIndex % Len(state'.players)) + 1].id]_vars

\* the third hand of a match of two players: the lead is back with the
\* first player
C28_Witness ==
  /\ state.phase = "Bidding"
  /\ Len(state.players) = 2
  /\ state.roundIndex = 2
  /\ state.leadIndex = 0
  /\ state.bids = Some(EmptyMap)
  /\ state.turn = state.players[1].id

\* ---- C29 --------------------------------------------------------------------
\* C29: when a TICK expires the timer and the player in turn holds no card,
\* the turn goes to the next player in ring order, timer becomes turnSeconds
\* and nothing else changes.
C29_EmptyHandRotates ==
  (/\ state.phase = "Trick"
   /\ state.timer # None
   /\ state.timer[1] - 1 <= 0
   /\ heldBy(state, state.turn) = {}) =>
    applyCommand(state, TickCmd).state =
      [state EXCEPT !.turn = ringNext(state, state.turn),
                    !.timer = Some(state.turnSeconds)]

\* a trick is in progress, the timer is about to expire on a player who has
\* played all their cards, and another player still holds cards
C29_Witness ==
  /\ state.phase = "Trick"
  /\ state.turnSeconds = 2
  /\ state.timer = Some(1)
  /\ state.trick # None
  /\ heldBy(state, state.turn) = {}
  /\ cardsLeft(state) # {}
  /\ applyCommand(state, TickCmd).state.turn # state.turn

\* ---- C30 --------------------------------------------------------------------
\* C30: shuffle(deck, seed) returns a sequence of the length of deck that
\* holds every card as often as deck does; the call leaves deck as it was,
\* and a second call with the same deck and seed returns the same sequence;
\* the shuffled full deck holds 52 pairwise distinct cards.
occurrences(q, c) == Cardinality({k \in 1..Len(q) : q[k] = c})

isPermutation ==
  probe.out # None =>
    /\ Len(probe.out[1]) = Len(probe.deck)
    /\ \A k \in 1..Len(probe.deck) :
         occurrences(probe.out[1], probe.deck[k]) = occurrences(probe.deck, probe.deck[k])
    /\ probe.deck = fullDeck =>
         Cardinality({probe.out[1][k] : k \in 1..Len(probe.out[1])}) = 52

C30_ShufflePermutation ==
  /\ []isPermutation
  /\ [][/\ probe'.deck = probe.deck
        /\ probe.out # None => probe'.out = probe.out]_vars

\* the full deck has been shuffled twice with "dev-seed": the result is not
\* the deck's own order
C30_Witness ==
  /\ probe.deck = fullDeck
  /\ probe.seed = <<100, 101, 118, 45, 115, 101, 101, 100>>
  /\ probe.calls = 2
  /\ probe.out # None
  /\ probe.out[1] # fullDeck
  /\ probe.out[1][1] = <<"2", "S">>
  /\ probe.out[1][2] = <<"10", "S">>

\* ---- C31 --------------------------------------------------------------------
\* C31: for a hand whose deal fits the deck, whenever the phase is Scoring
\* the tableWins of all players sum to handSizes[roundIndex].
RECURSIVE winsTotal(_, _)
winsTotal(s, i) ==
  IF i = 0 THEN 0 ELSE s.tableWins[1][s.players[i].id] + winsTotal(s, i - 1)

C31_TricksEqualHandSize ==
  (/\ state.phase = "Scoring"
   /\ state.roundIndex < Len(state.handSizes)
   /\ handSize(state) * Len(state.players) <= 52) =>
    winsTotal(state, Len(state.players)) = handSize(state)

\* a hand of two cards each has been played out, and one player took both
\* tricks
C31_Witness ==
  /\ state.phase = "Scoring"
  /\ state.handSizes = <<2>>
  /\ \E p \in ids(state) : state.tableWins[1][p] = 2

\* ---- C32 --------------------------------------------------------------------
\* C32: from every Trick state of a hand of one card or more whose deal fits
\* the deck, TICK commands alone bring the phase to Scoring, within MaxTicks
\* of them.

\* the TICKs the longest run of the explored hands needs, and to spare
MaxTicks == 24

\* the state after TICK commands, at most k of them, stopping when the phase
\* is no longer Trick
RECURSIVE tickRun(_, _)
tickRun(s, k) ==
  IF s.phase # "Trick" \/ k = 0 THEN s
  ELSE tickRun(applyCommand(s, TickCmd).state, k - 1)

C32_TicksFinishTheHand ==
  (/\ state.phase = "Trick"
   /\ state.roundIndex < Len(state.handSizes)
   /\ handSize(state) >= 1
   /\ handSize(state) * Len(state.players) <= 52) =>
    tickRun(state, MaxTicks).phase = "Scoring"

\* a run of TICKs that has to pass a player without cards twice: the timer
\* stands at 2, the player in turn has no card and the other player holds two
C32_Witness ==
  /\ state.phase = "Trick"
  /\ state.timer = Some(2)
  /\ state.trick = None
  /\ heldBy(state, state.turn) = {}
  /\ \E p \in ids(state) : Cardinality(heldBy(state, p)) = 2
  /\ tickRun(state, 7).phase = "Trick"
  /\ tickRun(state, MaxTicks).phase = "Scoring"

\* ---- C33 --------------------------------------------------------------------
\* C33: whenever the phase is Scoring, some player's tableWins differs from
\* that player's bid.
C33_SomeoneMisses ==
  state.phase = "Scoring" =>
    \E p \in ids(state) : state.tableWins[1][p] # state.bids[1][p]

\* ---- C34 --------------------------------------------------------------------
\* C34: during a hand the cards in the players' hands and in the plays of
\* the trick in progress are pairwise distinct; an accepted play takes
\* exactly one card, the played one, out of the hand of the acting player
\* and leaves every other hand as it is.
RECURSIVE heldTotal(_, _)
heldTotal(s, i) == IF i = 0 THEN 0 ELSE Len(handOf(s, s.players[i].id)) + heldTotal(s, i - 1)

onTable(s) == {trickPlays(s)[k].card : k \in 1..Len(trickPlays(s))}

cardsDistinct ==
  state.hands # None =>
    heldTotal(state, Len(state.players)) + Len(trickPlays(state))
      = Cardinality(cardsLeft(state) \cup onTable(state))

oneCardLeaves(s, s2, p) ==
  /\ p \in ids(s)
  /\ \E c \in heldBy(s, p) :
       /\ s2.hands[1][p] = removeCard(s.hands[1][p], c)
       /\ Len(s2.hands[1][p]) = Len(s.hands[1][p]) - 1
       /\ c \notin heldBy(s2, p)
  /\ \A q \in ids(s) \ {p} : s2.hands[1][q] = s.hands[1][q]

C34_CardsDistinct ==
  /\ cardsDistinct
  /\ state.phase = "Trick" =>
       \A cmd \in PlayCardCmds \cup {TickCmd} :
         LET s2 == applyCommand(state, cmd).state
         IN  s2.hands # state.hands =>
               /\ oneCardLeaves(state, s2, state.turn)
               /\ cmd.type = "PLAY_CARD" =>
                    /\ cmd.playerId = state.turn
                    /\ cmd.card \notin heldBy(s2, state.turn)

\* a trick of three players is half played: two cards lie on the table and
\* one player still holds a card
C34_Witness ==
  /\ state.phase = "Trick"
  /\ Len(state.players) = 3
  /\ Len(trickPlays(state)) = 2
  /\ Cardinality(cardsLeft(state)) = 1

\* ---- C35 --------------------------------------------------------------------
\* C35: every deal of a match leaves the deck in the order
\* shuffle(fullDeck, rngSeed) and gives players[i] the cards
\* deck[i*n .. (i+1)*n - 1], n = handSizes[roundIndex], whatever roundIndex
\* and leadIndex are; so hands of equal size in one match are the same deal.
deckPart(deck, from, n) ==
  LET m == IF from + n <= Len(deck) THEN n
           ELSE IF from < Len(deck) THEN Len(deck) - from ELSE 0
  IN  [k \in 1..m |-> deck[from + k]]

C35_SameDealEveryHand ==
  (state.phase = "Bidding" /\ state.roundIndex < Len(state.handSizes)) =>
    LET deck == shuffle(fullDeck, state.rngSeed)
        n    == handSize(state)
    IN  /\ state.deck = Some(deck)
        /\ \A i \in 1..Len(state.players) :
             state.hands[1][state.players[i].id] = deckPart(deck, (i - 1) * n, n)

\* the second hand of a match of two hands of one card: the lead has moved on
\* and the players hold the cards of the first hand again, 2S and 10S
C35_Witness ==
  /\ state.phase = "Bidding"
  /\ state.handSizes = <<1, 1>>
  /\ state.roundIndex = 1
  /\ state.leadIndex = 1
  /\ state.hands[1][state.players[1].id] = <<(<<"2", "S">>)>>
  /\ state.hands[1][state.players[2].id] = <<(<<"10", "S">>)>>

\* C36: in the App, the interval's callback and the bot timer's callback apply
\* their command to the most recent state: the state set by the interval is
\* the current state after TICK, the state set by the bot timer is the
\* current state after the bot's command, so that no state an accepted
\* command produced is overwritten by a result computed from an older
\* captured state.
C36_LatestState ==
  [][/\ IntervalTick => state' = applyCommand(state, TickCmd).state
     /\ BotTimeout =>
          LET cmd == botCommand(app.bot[1])
          IN  IF cmd = None THEN state' = state
              ELSE state' = applyCommand(state, cmd[1]).state]_vars


\* C37: the state of a GameEngine is replay(seed, log) of its own log, after
\* its construction and after every dispatch and reset; a dispatch whose
\* command fails validation throws and leaves state and log as they are;
\* reset yields initialState of the same seed and an empty log.
C37_EngineIsReplayOfLog ==
  /\ engine.state = replay(engine.seed, engine.log)
  /\ \A cmd \in EngineCmds :
       validate(engine.state, cmd) # Null =>
         /\ dispatch(engine, cmd).threw
         /\ dispatch(engine, cmd).state = engine.state
         /\ dispatch(engine, cmd).log = engine.log
  /\ reset(engine).state = initialStateOfSeed(engine.seed)
  /\ reset(engine).log = << >>

\* a match in play whose log ends with a turn ended and whose last dispatch
\* threw
C37_Witness ==
  /\ engine.state.phase = "playing"
  /\ Len(engine.log) >= 4
  /\ engine.log[1].type = "PLAYER_ADDED"
  /\ engine.log[Len(engine.log)].type = "TURN_ENDED"
  /\ engine.state.eventCount = Len(engine.log)
  /\ engine.threw

====
